---- MODULE Spec2Model ----
(***************************************************************************)
(* Cloud-360: the orchestrator main.py and the three report modules        *)
(* EC2_report.py, RDS_report.py and ECS_report.py.                         *)
(*                                                                         *)
(* The AWS services (EC2, RDS, ECS, CloudWatch) are the environment: what  *)
(* a listing call or a get_metric_data page returns, and whether a call    *)
(* raises, is chosen nondeterministically from small sets.                 *)
(***************************************************************************)
EXTENDS Integers, Sequences, FiniteSets, TLC

(***************************************************************************)
(* Bounds of the environment.                                              *)
(***************************************************************************)
\* resources (instances, DB instances, services) the account holds at most
MaxRes == 2
\* get_metric_data pages CloudWatch serves at most during one report run
MaxPages == 2
\* ECS clusters the account holds at most
MaxClusters == 1

(***************************************************************************)
(* Configuration of the report modules.                                    *)
(***************************************************************************)
EC2_METRICS == << "CPUCreditUsage", "CPUUtilization", "MetadataNoToken",
                  "CPUCreditBalance" >>

RDS_METRICS == << "CPUUtilization", "FreeableMemory", "WriteLatency",
                  "ReadLatency", "Deadlocks", "DiskQueueDepth",
                  "DatabaseConnections", "DeleteLatency", "LoginFailures",
                  "SwapUsage", "SelectLatency", "ReadThroughput",
                  "DDLLatency", "WriteIOPS", "CommitLatency", "ReadIOPS" >>

ECS_METRICS == << "CPUUtilization", "MemoryUtilization" >>

Modules == << "EC2", "RDS", "ECS" >>

MetricList(m) ==
    CASE m = "EC2" -> EC2_METRICS
      [] m = "RDS" -> RDS_METRICS
      [] m = "ECS" -> ECS_METRICS

(***************************************************************************)
(* Numbers.  A Python float is modelled as the exact rational              *)
(* (hi * Base + lo) / den, kept in two limbs so that byte counts beyond    *)
(* 2^31 stay within TLC's integers.  A sample value has den = 1; the mean  *)
(* of n samples has den = n.  isnum = FALSE stands for a value that is no  *)
(* number (None, a string), on which min, max, sum and formatting raise.   *)
(***************************************************************************)
Base == 10 ^ 7

Num(n) == [isnum |-> TRUE, hi |-> n \div Base, lo |-> n % Base, den |-> 1]
Big(h, l) == [isnum |-> TRUE, hi |-> h, lo |-> l, den |-> 1]
Frac(n, d) == [isnum |-> TRUE, hi |-> n \div Base, lo |-> n % Base, den |-> d]
NaV == [isnum |-> FALSE, hi |-> 0, lo |-> 0, den |-> 1]

\* a < b for sample values (den = 1)
Less(a, b) == a.hi < b.hi \/ (a.hi = b.hi /\ a.lo < b.lo)

\* a + b for sample values (den = 1)
Plus(a, b) ==
    [isnum |-> TRUE,
     hi |-> a.hi + b.hi + ((a.lo + b.lo) \div Base),
     lo |-> (a.lo + b.lo) % Base,
     den |-> 1]

AllNumeric(values) == \A i \in 1..Len(values) : values[i].isnum

RECURSIVE MinFrom(_, _)
MinFrom(values, k) ==
    IF k = Len(values) THEN values[k]
    ELSE LET rest == MinFrom(values, k + 1)
         IN IF Less(rest, values[k]) THEN rest ELSE values[k]

RECURSIVE MaxFrom(_, _)
MaxFrom(values, k) ==
    IF k = Len(values) THEN values[k]
    ELSE LET rest == MaxFrom(values, k + 1)
         IN IF Less(values[k], rest) THEN rest ELSE values[k]

RECURSIVE SumTo(_, _)
SumTo(values, k) ==
    IF k = 0 THEN Num(0) ELSE Plus(SumTo(values, k - 1), values[k])

\* min(values), max(values), sum(values) / len(values) of a non-empty list
Min(values) == MinFrom(values, 1)
Max(values) == MaxFrom(values, 1)
Avg(values) == [SumTo(values, Len(values)) EXCEPT !.den = Len(values)]

(***************************************************************************)
(* String formatting.  f"{x:.2f}" rounds x to the nearest hundredth; an    *)
(* exact tie goes to the even neighbour (a tie of rationals is a dyadic    *)
(* number here, which the float holds exactly).  The rendered text         *)
(* "<whole>.<frac><suffix>" is the record [hi, lo, frac, suffix] with      *)
(* whole = hi * Base + lo and numeric = TRUE; any other string s of a      *)
(* table cell is Str(s).                                                   *)
(***************************************************************************)
RoundDiv(n, d) ==
    LET q == n \div d
        r == n % d
    IN  IF 2 * r < d THEN q
        ELSE IF 2 * r > d THEN q + 1
        ELSE IF q % 2 = 0 THEN q ELSE q + 1

Text(hi, lo, frac, suffix) ==
    [numeric |-> TRUE, hi |-> hi + (lo \div Base), lo |-> lo % Base,
     frac |-> frac, suffix |-> suffix]

\* a cell holding the plain string s (a sentinel, a name, an identifier)
Str(s) == [numeric |-> FALSE, hi |-> 0, lo |-> 0, frac |-> 0, suffix |-> s]

\* f"{value:.2f}" followed by suffix
Fixed2(value, suffix) ==
    LET q1 == value.hi \div value.den
        t  == (value.hi % value.den) * Base + value.lo
        q2 == t \div value.den
        h  == RoundDiv(100 * (t % value.den), value.den)
    IN  Text(q1, q2 + (h \div 100), h % 100, suffix)

\* f"{value/1e9:.2f} GB": the hundredths of a gigabyte are value / 10^7
GB2(value) ==
    LET q1 == value.hi \div value.den
        t  == (value.hi % value.den) * Base + value.lo
        h  == q1 + RoundDiv(t, value.den * Base)
    IN  Text(0, h \div 100, h % 100, " GB")

\* sub in s
Contains(sub, s) ==
    \E i \in 1..(Len(s) + 1 - Len(sub)) : SubSeq(s, i, i + Len(sub) - 1) = sub

EC2_format_metric_value(value, metric_name) ==
    IF Contains("CPUUtilization", metric_name) THEN Fixed2(value, "%")
    ELSE IF Contains("Bytes", metric_name) THEN GB2(value)
    ELSE Fixed2(value, "")

RDS_format_metric_value(value, metric_name) ==
    IF Contains("CPUUtilization", metric_name) THEN Fixed2(value, "%")
    ELSE IF Contains("FreeableMemory", metric_name) THEN GB2(value)
    ELSE Fixed2(value, "")

ECS_format_metric_value(value, metric_name) ==
    IF Contains("CPUUtilization", metric_name)
       \/ Contains("MemoryUtilization", metric_name)
    THEN Fixed2(value, "%")
    ELSE Fixed2(value, "")

format_metric_value(m, value, metric_name) ==
    CASE m = "EC2" -> EC2_format_metric_value(value, metric_name)
      [] m = "RDS" -> RDS_format_metric_value(value, metric_name)
      [] m = "ECS" -> ECS_format_metric_value(value, metric_name)

(***************************************************************************)
(* get_cloudwatch_metrics: the pure parts.  A dict is a function from its  *)
(* keys; d.update(e) is e @@ d.                                            *)
(***************************************************************************)
Range(seq) == { seq[i] : i \in 1..Len(seq) }

\* f"m{i}"
QueryId(i) == "m" \o ToString(i)

DigitOf(c) ==
    CASE c = "0" -> 0 [] c = "1" -> 1 [] c = "2" -> 2 [] c = "3" -> 3
      [] c = "4" -> 4 [] c = "5" -> 5 [] c = "6" -> 6 [] c = "7" -> 7
      [] c = "8" -> 8 [] c = "9" -> 9 [] OTHER -> -1

\* int(s) for an unsigned decimal string; -1 where int raises ValueError
RECURSIVE ParseInt(_)
ParseInt(s) ==
    IF Len(s) = 0 THEN -1
    ELSE LET d == DigitOf(SubSeq(s, Len(s), Len(s)))
         IN  IF Len(s) = 1 THEN d
             ELSE LET p == ParseInt(SubSeq(s, 1, Len(s) - 1))
                  IN  IF p < 0 \/ d < 0 THEN -1 ELSE 10 * p + d

\* int(result['Id'][1:])
IdIndex(id) == ParseInt(SubSeq(id, 2, Len(id)))

\* all_results[metric_name] = [] for every metric of the list
EmptyResults(metric_list) == [n \in Range(metric_list) |-> << >>]

\* a faulty variant of Extended: the entry is replaced, not extended
Extended_Replace(old, values) == values

\* all_results[metric_list[idx]].extend(values): the replaced entry
Extended(old, values) == old \o values

\* the loop over page['MetricDataResults'], from result k on; raised when
\* the Id of a result is no index of metric_list
RECURSIVE ExtendFrom(_, _, _, _)
ExtendFrom(metric_list, results, page, k) ==
    IF k > Len(page) THEN [raised |-> FALSE, results |-> results]
    ELSE LET idx == IdIndex(page[k].Id)
         IN  IF idx < 0 \/ idx >= Len(metric_list)
             THEN [raised |-> TRUE, results |-> results]
             ELSE ExtendFrom(metric_list,
                     [results EXCEPT ![metric_list[idx + 1]] =
                                         Extended(@, page[k].Values)],
                     page, k + 1)

\* {f'{metric} Min': a, f'{metric} Max': b, f'{metric} Avg': c}
Fields(metric, a, b, c) ==
    ((metric \o " Min") :> a) @@ ((metric \o " Max") :> b)
        @@ ((metric \o " Avg") :> c)

\* a faulty variant of Reduced: no values are reduced like the value 0
Reduced_Zero(m, metric_name, values) ==
    LET vs == IF values = << >> THEN << Num(0) >> ELSE values
    IN  Fields(metric_name,
               format_metric_value(m, Min(vs), metric_name),
               format_metric_value(m, Max(vs), metric_name),
               format_metric_value(m, Avg(vs), metric_name))

\* the three cells of one metric: 'Nil' for no values, else the formatted
\* minimum, maximum and mean
Reduced(m, metric_name, values) ==
    IF values = << >>
    THEN Fields(metric_name, Str("Nil"), Str("Nil"), Str("Nil"))
    ELSE Fields(metric_name,
                format_metric_value(m, Min(values), metric_name),
                format_metric_value(m, Max(values), metric_name),
                format_metric_value(m, Avg(values), metric_name))

\* the loop over all_results.items(), from metric k on, updating
\* metrics_data; raised when min, max, sum or the formatting raises
RECURSIVE ReduceFrom(_, _, _, _, _)
ReduceFrom(m, metric_list, results, k, metrics_data) ==
    IF k > Len(metric_list) THEN [raised |-> FALSE, data |-> metrics_data]
    ELSE LET values == results[metric_list[k]]
         IN  IF ~AllNumeric(values)
             THEN [raised |-> TRUE, data |-> metrics_data]
             ELSE ReduceFrom(m, metric_list, results, k + 1,
                     Reduced(m, metric_list[k], values) @@ metrics_data)

\* the except branch: 'Error' in the three fields of every metric
RECURSIVE ErrorFrom(_, _, _)
ErrorFrom(metric_list, k, metrics_data) ==
    IF k > Len(metric_list) THEN metrics_data
    ELSE ErrorFrom(metric_list, k + 1,
            Fields(metric_list[k], Str("Error"), Str("Error"), Str("Error"))
                @@ metrics_data)

\* a faulty variant of OnException: 'Error' for the first metric only
OnException_FirstOnly(metric_list, metrics_data) ==
    Fields(metric_list[1], Str("Error"), Str("Error"), Str("Error"))
        @@ metrics_data

\* a faulty variant of OnException: the fields the reduction has written
\* before it raised are kept
OnException_KeepReduced(metric_list, metrics_data) ==
    metrics_data @@ ErrorFrom(metric_list, 1, metrics_data)

OnException(metric_list, metrics_data) ==
    ErrorFrom(metric_list, 1, metrics_data)

\* metrics_data before the try block: {'Name': resource_name} in EC2 and
\* RDS, {} in ECS (written as the empty function)
InitialData(m, resource_name) ==
    IF m = "ECS" THEN [k \in {} |-> Str("")]
    ELSE "Name" :> Str(resource_name)

(***************************************************************************)
(* The environment: what the AWS APIs may return.                          *)
(***************************************************************************)
\* one entry of page['MetricDataResults'] for the query with index i
Result(i, values) == [Id |-> QueryId(i), Values |-> values]

\* a page whose results hold no sample: one empty result per query
EmptyPage(m) ==
    [i \in 1..Len(MetricList(m)) |-> Result(i - 1, << >>)]

\* the pages that hold samples; the last two are malformed: an Id that is
\* no index of the metric list, and a value that is no number
DataPages(m) ==
    { << Result(0, << Num(10) >>) >>,
      << Result(0, << Num(20), Num(30) >>) >>,
      << Result(0, << Num(10), Num(20), Num(30) >>),
         Result(1, << Big(214, 7483648) >>) >>,
      << Result(Len(MetricList(m)), << Num(10) >>) >>,
      << Result(1, << Num(10), NaV >>) >> }

\* the Tags of an EC2 instance: none, or two tags of which one is the name
TagLists ==
    { << >>,
      << [Key |-> "Env", Value |-> "prod"], [Key |-> "Name", Value |-> "web"] >> }

\* all sequences over S of length lo..hi
SeqsOf(S, lo, hi) == UNION { [1..n -> S] : n \in lo..hi }

ClusterArn(i) == "arn:aws:ecs:eu-west-1:1:cluster/c" \o ToString(i)

(***************************************************************************)
(* Helpers of the report modules.                                          *)
(***************************************************************************)
\* the first tag whose Key is 'Name', else 'N/A'
get_instance_name(instance) ==
    LET named == { i \in 1..Len(instance.Tags) : instance.Tags[i].Key = "Name" }
    IN  IF named = {} THEN "N/A"
        ELSE instance.Tags[CHOOSE i \in named : \A j \in named : i <= j].Value

\* cluster_arn.split("/")[-1]
RECURSIVE LastSegment(_)
LastSegment(s) ==
    IF Len(s) = 0 THEN s
    ELSE IF SubSeq(s, Len(s), Len(s)) = "/" THEN ""
    ELSE LastSegment(SubSeq(s, 1, Len(s) - 1)) \o SubSeq(s, Len(s), Len(s))

\* the inventory row of an EC2 instance; the other columns are copies of
\* fields of the API answer and are left out
EC2Row(instance) ==
    ("Name" :> Str(get_instance_name(instance)))
        @@ ("Instance ID" :> Str(instance.InstanceId))

RDSRow(db) == "DBInstanceIdentifier" :> Str(db.DBInstanceIdentifier)

ECSRow(cluster_name, service, stats) ==
    stats @@ ( ("Cluster" :> Str(cluster_name))
                 @@ ("Service Name" :> Str(service.serviceName))
                 @@ ("ARN" :> Str(service.serviceArn)) )

\* final_columns of ECS_report.main, for the columns modelled
final_columns ==
    { "Cluster", "Service Name", "ARN",
      "CPUUtilization Min", "CPUUtilization Max", "CPUUtilization Avg",
      "MemoryUtilization Min", "MemoryUtilization Max", "MemoryUtilization Avg" }

\* df.reindex(columns=cols) on one row
Reindex(row, cols) ==
    [c \in cols |-> IF c \in DOMAIN row THEN row[c] ELSE Str("NaN")]

\* pd.DataFrame(list): the rows, without the bookkeeping of the model
Frame(list) == [i \in 1..Len(list) |-> list[i].row]

(***************************************************************************)
(* State.                                                                  *)
(***************************************************************************)
VARIABLES
    opc,            \* main.main: index in Modules of the try block reached, 4 after the last
    rpc,            \* <report>.main: "idle" outside a call, else the phase reached
    started,        \* the reports main.main has called, in order
    orch_log,       \* the reports for which main.main printed "Error generating ..."
    report_log,     \* the running report's main printed "An unexpected error occurred"
    result,         \* how the running report's main ended, "none" before
    files,          \* the reports whose spreadsheet file is written
    sheet,          \* the tables of the file the running report wrote
    details_list,   \* EC2, RDS: the inventory rows (instances_details, db_instances)
    metrics_list,   \* EC2, RDS: the rows returned by get_cloudwatch_metrics
    report_data,    \* ECS: all_services_data
    clusters,       \* ECS: cluster_arns
    ci,             \* ECS: index of the cluster whose services are being listed
    pending,        \* ECS: services_desc not yet processed
    qpc,            \* get_cloudwatch_metrics: "idle" or "paging"
    all_results,    \* get_cloudwatch_metrics: the values per metric so far
    q_pages,        \* the pages the running query has received, in order;
                    \* after a normal return, the pages of that call until
                    \* the caller's next step (bookkeeping, as are the fields
                    \* res and raised beside each row: the resource queried,
                    \* and whether its query raised, "no" or "yes")
    q_raised,       \* where the latest call raised, until the caller's next
                    \* step: "no", "first_call", "later_call", "page", "reduce"
    served,         \* pages holding samples served during the running report
    queried,        \* a get_metric_data call was issued during the running report
    listed,         \* the number of rows the inventory listing of the running
                    \* report returned, -1 while it has not returned
    failed,         \* the reports in whose main an exception reached the try block
    fmt             \* a single call of format_metric_value, or NoCall

vars == << opc, rpc, started, orch_log, report_log, result, files, sheet,
           details_list, metrics_list, report_data, clusters, ci, pending,
           qpc, all_results, q_pages, q_raised, served, queried, listed,
           failed, fmt >>

orch    == << opc, started, orch_log >>
locals  == << details_list, metrics_list, report_data, clusters, ci, pending >>
query   == << qpc, all_results, q_pages, q_raised >>
call    == << qpc, all_results >>

NoSheet == [top |-> << >>, bottom |-> << >>]
NoCall  == [m |-> "", value |-> Num(0), name |-> "", done |-> FALSE, out |-> Str("")]

\* the report whose main is running or about to be called
cur == IF opc <= Len(Modules) THEN Modules[opc] ELSE "none"

\* the report called last
running == IF started = << >> THEN "none" ELSE started[Len(started)]

Init ==
    /\ opc = 1
    /\ rpc = "idle"
    /\ started = << >>
    /\ orch_log = {}
    /\ report_log = FALSE
    /\ result = "none"
    /\ files = {}
    /\ sheet = NoSheet
    /\ details_list = << >>
    /\ metrics_list = << >>
    /\ report_data = << >>
    /\ clusters = << >>
    /\ ci = 0
    /\ pending = << >>
    /\ qpc = "idle"
    /\ all_results = << >>
    /\ q_pages = << >>
    /\ q_raised = "no"
    /\ served = 0
    /\ queried = FALSE
    /\ listed = -1
    /\ failed = {}
    /\ fmt = NoCall

\* the locals of a report's main are gone when it returns
LocalsGone ==
    /\ details_list' = << >>
    /\ metrics_list' = << >>
    /\ report_data' = << >>
    /\ clusters' = << >>
    /\ ci' = 0
    /\ pending' = << >>
    /\ sheet' = NoSheet

(***************************************************************************)
(* main.main: three try blocks in the order of Modules.                    *)
(***************************************************************************)
\* try: print(...); <report>.main()
MainCall ==
    /\ opc <= Len(Modules)
    /\ rpc = "idle"
    /\ started' = Append(started, cur)
    /\ rpc' = "session"
    /\ report_log' = FALSE
    /\ result' = "none"
    /\ served' = 0
    /\ queried' = FALSE
    /\ listed' = -1
    /\ UNCHANGED << opc, orch_log, files, sheet, locals, query, failed, fmt >>

\* a faulty variant of MainAfter: a failed report ends the run
MainAfter_Abort ==
    /\ rpc \in { "returned", "raised" }
    /\ orch_log' = IF rpc = "raised" THEN orch_log \cup { cur } ELSE orch_log
    /\ opc' = IF cur \in failed THEN Len(Modules) + 1 ELSE opc + 1
    /\ rpc' = "idle"
    /\ UNCHANGED << started, report_log, result, files, sheet, locals, query,
                    served, queried, listed, failed, fmt >>

\* the call has ended: by an exception (the except branch prints) or by a
\* return; either way the next try block, or the last print, follows
MainAfter ==
    /\ rpc \in { "returned", "raised" }
    /\ orch_log' = IF rpc = "raised" THEN orch_log \cup { cur } ELSE orch_log
    /\ opc' = opc + 1
    /\ rpc' = "idle"
    /\ UNCHANGED << started, report_log, result, files, sheet, locals, query,
                    served, queried, listed, failed, fmt >>

(***************************************************************************)
(* <report>.main: the body is one try block with except Exception.         *)
(***************************************************************************)
\* a faulty variant of ReportHandler: no except branch, the exception
\* leaves main
ReportHandler_Reraise(how) ==
    /\ report_log' = report_log
    /\ failed' = failed \cup { cur }
    /\ result' = how
    /\ rpc' = "raised"
    /\ LocalsGone

\* what main does with an exception raised in its try block: print, return
ReportHandler(how) ==
    /\ report_log' = TRUE
    /\ failed' = failed \cup { cur }
    /\ result' = how
    /\ rpc' = "returned"
    /\ LocalsGone

FirstListing(m) ==
    CASE m = "EC2" -> "status"
      [] m = "RDS" -> "db_instances"
      [] m = "ECS" -> "clusters"

ListingPhases == { "status", "addresses", "instances", "db_instances",
                   "clusters", "services" }

\* boto3.Session(...), session.client(...) twice
Session ==
    /\ rpc = "session"
    /\ rpc' = FirstListing(cur)
    /\ UNCHANGED << orch, report_log, result, files, sheet, locals, query,
                    served, queried, listed, failed, fmt >>

\* ... one of which raises
SessionRaise ==
    /\ rpc = "session"
    /\ ReportHandler("session_failed")
    /\ UNCHANGED << orch, files, query, served, queried, listed, fmt >>

\* a faulty variant of ListRaise: the rows collected so far are exported
ListRaise_Partial ==
    /\ rpc \in ListingPhases
    /\ qpc = "idle"
    /\ report_log' = TRUE
    /\ failed' = failed \cup { cur }
    /\ result' = "listing_failed"
    /\ rpc' = "returned"
    /\ files' = files \cup { cur }
    /\ q_pages' = << >>
    /\ q_raised' = "no"
    /\ UNCHANGED << orch, sheet, locals, call, served, queried, listed, fmt >>

\* a call of the inventory listing raises: the listing function is left,
\* with the rows collected so far, and main's except branch runs
ListRaise ==
    /\ rpc \in ListingPhases
    /\ qpc = "idle"
    /\ ReportHandler("listing_failed")
    /\ q_pages' = << >>
    /\ q_raised' = "no"
    /\ UNCHANGED << orch, files, call, served, queried, listed, fmt >>

\* a faulty variant of AfterListing: no return on an empty listing
AfterListing_NoReturn(rows, next) ==
    /\ listed' = Len(rows)
    /\ rpc' = next
    /\ UNCHANGED << result, locals, sheet >>

\* `if not <rows>: print(...); return` after the listing, else go on
AfterListing(rows, next) ==
    /\ listed' = Len(rows)
    /\ IF rows = << >>
       THEN /\ result' = "empty"
            /\ rpc' = "returned"
            /\ LocalsGone
       ELSE /\ rpc' = next
            /\ UNCHANGED << result, locals, sheet >>

(***************************************************************************)
(* EC2_report.get_ec2_instance_details and RDS_report.get_rds_instance_    *)
(* details.  status_map and ip_map feed only the columns left out.         *)
(***************************************************************************)
\* ec2_client.describe_instance_status(...)
EC2DescribeStatus ==
    /\ cur = "EC2" /\ rpc = "status"
    /\ rpc' = "addresses"
    /\ UNCHANGED << orch, report_log, result, files, sheet, locals, query,
                    served, queried, listed, failed, fmt >>

\* ec2_client.describe_addresses()
EC2DescribeAddresses ==
    /\ cur = "EC2" /\ rpc = "addresses"
    /\ rpc' = "instances"
    /\ UNCHANGED << orch, report_log, result, files, sheet, locals, query,
                    served, queried, listed, failed, fmt >>

\* one page of describe_instances: for each instance of it,
\* describe_alarms_for_metric and the append of its row
EC2InstancesPage ==
    /\ cur = "EC2" /\ rpc = "instances"
    /\ \E tags \in SeqsOf(TagLists, 1, MaxRes - Len(details_list)) :
         details_list' = details_list \o
             [j \in 1..Len(tags) |->
                 EC2Row([InstanceId |-> "i-" \o ToString(Len(details_list) + j),
                         Tags |-> tags[j]])]
    /\ UNCHANGED << orch, rpc, report_log, result, files, sheet, metrics_list,
                    report_data, clusters, ci, pending, query, served, queried,
                    listed, failed, fmt >>

\* one page of describe_db_instances
RDSInstancesPage ==
    /\ cur = "RDS" /\ rpc = "db_instances"
    /\ \E n \in 1..(MaxRes - Len(details_list)) :
         details_list' = details_list \o
             [j \in 1..n |->
                 RDSRow([DBInstanceIdentifier |->
                            "db-" \o ToString(Len(details_list) + j)])]
    /\ UNCHANGED << orch, rpc, report_log, result, files, sheet, metrics_list,
                    report_data, clusters, ci, pending, query, served, queried,
                    listed, failed, fmt >>

\* the paginator is exhausted: the listing returns details_list to main,
\* which returns when it is empty
ListEnd ==
    /\ rpc \in { "instances", "db_instances" }
    /\ AfterListing(details_list, "metrics")
    /\ UNCHANGED << orch, report_log, files, query, served, queried, failed, fmt >>

(***************************************************************************)
(* get_cloudwatch_metrics, called by main for each row of details_list     *)
(* (EC2, RDS) or by get_ecs_report_data for each described service (ECS).  *)
(***************************************************************************)
\* a faulty variant of QueryDue: EC2 and RDS query a row as soon as it is
\* listed
QueryDue_Early ==
    \/ cur \in { "EC2", "RDS" }
          /\ rpc \in { "instances", "db_instances", "metrics" }
          /\ Len(metrics_list) < Len(details_list)
    \/ cur = "ECS" /\ rpc = "services" /\ pending # << >>

\* the next resource to query: main's comprehension over details_list after
\* the listing (EC2, RDS), the loop over services_desc within it (ECS)
QueryDue ==
    \/ cur \in { "EC2", "RDS" } /\ rpc = "metrics"
                                /\ Len(metrics_list) < Len(details_list)
    \/ cur = "ECS" /\ rpc = "services" /\ pending # << >>

\* the resource_name argument (service_name in ECS)
ResourceName ==
    CASE cur = "EC2" -> details_list[Len(metrics_list) + 1]["Name"].suffix
      [] cur = "RDS" -> details_list[Len(metrics_list) + 1]["DBInstanceIdentifier"].suffix
      [] cur = "ECS" -> pending[1].serviceName

\* the value of the dimension the query is made for
ResourceKey ==
    CASE cur = "EC2" -> details_list[Len(metrics_list) + 1]["Instance ID"].suffix
      [] cur = "RDS" -> details_list[Len(metrics_list) + 1]["DBInstanceIdentifier"].suffix
      [] cur = "ECS" -> pending[1].serviceArn

\* get_cloudwatch_metrics returns metrics_data: the list comprehension of
\* main appends it (EC2, RDS), get_ecs_report_data appends the service's
\* row holding it (ECS)
Return(metrics_data, raised) ==
    /\ qpc' = "idle"
    /\ all_results' = << >>
    /\ q_pages' = IF raised = "no" THEN q_pages ELSE << >>
    /\ q_raised' = raised
    /\ IF cur = "ECS"
       THEN /\ report_data' = Append(report_data,
                 [row |-> ECSRow(LastSegment(clusters[ci]), pending[1], metrics_data),
                  res |-> ResourceKey,
                  raised |-> IF raised = "no" THEN "no" ELSE "yes"])
            /\ pending' = Tail(pending)
            /\ UNCHANGED metrics_list
       ELSE /\ metrics_list' = Append(metrics_list,
                 [row |-> metrics_data,
                  res |-> ResourceKey,
                  raised |-> IF raised = "no" THEN "no" ELSE "yes"])
            /\ UNCHANGED << report_data, pending >>
    /\ UNCHANGED << details_list, clusters, ci >>

\* entry: the queries are built, the paginator made, all_results emptied
QueryStart ==
    /\ qpc = "idle"
    /\ QueryDue
    /\ qpc' = "paging"
    /\ all_results' = EmptyResults(MetricList(cur))
    /\ q_pages' = << >>
    /\ q_raised' = "no"
    /\ UNCHANGED << orch, rpc, report_log, result, files, sheet, locals,
                    served, queried, listed, failed, fmt >>

\* the paginator yields a page: its results are added to all_results, or
\* a result's Id raises and the except branch returns the 'Error' row.  A
\* page without samples is served only as the single page of a query.
QueryPage ==
    /\ qpc = "paging"
    /\ q_pages # << EmptyPage(cur) >>
    /\ \E page \in (IF served < MaxPages THEN DataPages(cur) ELSE {})
                     \cup (IF q_pages = << >> THEN { EmptyPage(cur) } ELSE {}) :
         LET e == ExtendFrom(MetricList(cur), all_results, page, 1)
         IN  /\ served' = IF page = EmptyPage(cur) THEN served ELSE served + 1
             /\ IF e.raised
                THEN Return(OnException(MetricList(cur),
                                        InitialData(cur, ResourceName)),
                            "page")
                ELSE /\ all_results' = e.results
                     /\ q_pages' = Append(q_pages, page)
                     /\ UNCHANGED << qpc, q_raised, locals >>
    /\ queried' = TRUE
    /\ UNCHANGED << orch, rpc, report_log, result, files, sheet, listed,
                    failed, fmt >>

\* get_metric_data raises, on the first call or on a later one
QueryRaise ==
    /\ qpc = "paging"
    /\ Return(OnException(MetricList(cur), InitialData(cur, ResourceName)),
              IF q_pages = << >> THEN "first_call" ELSE "later_call")
    /\ queried' = TRUE
    /\ UNCHANGED << orch, rpc, report_log, result, files, sheet, served,
                    listed, failed, fmt >>

\* the paginator is exhausted: the reduction, and the except branch when it
\* raises
QueryEnd ==
    /\ qpc = "paging"
    /\ q_pages # << >>
    /\ LET r == ReduceFrom(cur, MetricList(cur), all_results, 1,
                           InitialData(cur, ResourceName))
       IN  Return(IF r.raised THEN OnException(MetricList(cur), r.data)
                  ELSE r.data,
                  IF r.raised THEN "reduce" ELSE "no")
    /\ UNCHANGED << orch, rpc, report_log, result, files, sheet, served,
                    queried, listed, failed, fmt >>

(***************************************************************************)
(* EC2_report.main and RDS_report.main after the metrics: the two frames   *)
(* and the file, metrics_df below details_df.                              *)
(***************************************************************************)
Export ==
    /\ cur \in { "EC2", "RDS" } /\ rpc = "metrics"
    /\ qpc = "idle"
    /\ Len(metrics_list) = Len(details_list)
    /\ sheet' = [top |-> details_list, bottom |-> Frame(metrics_list)]
    /\ files' = files \cup { cur }
    /\ result' = "exported"
    /\ rpc' = "written"
    /\ q_pages' = << >>
    /\ q_raised' = "no"
    /\ UNCHANGED << orch, report_log, locals, call, served, queried, listed,
                    failed, fmt >>

\* the last print and the return of main
ReportReturn ==
    /\ rpc = "written"
    /\ rpc' = "returned"
    /\ LocalsGone
    /\ UNCHANGED << orch, report_log, result, files, query, served, queried,
                    listed, failed, fmt >>

(***************************************************************************)
(* ECS_report.get_ecs_report_data and ECS_report.main.  A page of          *)
(* list_services holds fewer than ten services here, so that each page is  *)
(* one batch of describe_services.                                         *)
(***************************************************************************)
\* ecs_client.list_clusters()
ECSListClusters ==
    /\ cur = "ECS" /\ rpc = "clusters"
    /\ \E n \in 0..MaxClusters :
         clusters' = [i \in 1..n |-> ClusterArn(i)]
    /\ ci' = 1
    /\ rpc' = "services"
    /\ UNCHANGED << orch, report_log, result, files, sheet, details_list,
                    metrics_list, report_data, pending, query, served, queried,
                    listed, failed, fmt >>

\* the number of services of cluster c that have a row already
Known(c) ==
    Cardinality({ j \in 1..Len(report_data) :
                    report_data[j].row["Cluster"].suffix = LastSegment(c) })

\* one non-empty page of list_services for the current cluster, and
\* describe_services on it
ECSServicesPage ==
    /\ cur = "ECS" /\ rpc = "services"
    /\ ci <= Len(clusters)
    /\ pending = << >> /\ qpc = "idle"
    /\ \E n \in 1..(MaxRes - Len(report_data)) :
         pending' = [i \in 1..n |->
                       LET name == "svc-" \o ToString(Known(clusters[ci]) + i)
                       IN  [serviceName |-> name,
                            serviceArn |-> LastSegment(clusters[ci]) \o "/" \o name]]
    /\ q_pages' = << >>
    /\ q_raised' = "no"
    /\ UNCHANGED << orch, rpc, report_log, result, files, sheet, details_list,
                    metrics_list, report_data, clusters, ci, call, served,
                    queried, listed, failed, fmt >>

\* the paginator of the current cluster is exhausted
ECSNextCluster ==
    /\ cur = "ECS" /\ rpc = "services"
    /\ ci <= Len(clusters)
    /\ pending = << >> /\ qpc = "idle"
    /\ ci' = ci + 1
    /\ q_pages' = << >>
    /\ q_raised' = "no"
    /\ UNCHANGED << orch, rpc, report_log, result, files, sheet, details_list,
                    metrics_list, report_data, clusters, pending, call, served,
                    queried, listed, failed, fmt >>

\* the loop over the clusters is over: get_ecs_report_data returns
\* all_services_data to main, which returns when it is empty
ECSListEnd ==
    /\ cur = "ECS" /\ rpc = "services"
    /\ ci > Len(clusters)
    /\ AfterListing(report_data, "export")
    /\ UNCHANGED << orch, report_log, files, query, served, queried, failed, fmt >>

\* the frame, its reindex and df.to_excel
ECSExport ==
    /\ cur = "ECS" /\ rpc = "export"
    /\ sheet' = [top |-> [i \in 1..Len(report_data) |->
                            Reindex(report_data[i].row, final_columns)],
                 bottom |-> << >>]
    /\ files' = files \cup { cur }
    /\ result' = "exported"
    /\ rpc' = "written"
    /\ UNCHANGED << orch, report_log, locals, query, served, queried, listed,
                    failed, fmt >>

Next ==
    \/ MainCall \/ MainAfter
    \/ Session \/ SessionRaise \/ ListRaise
    \/ EC2DescribeStatus \/ EC2DescribeAddresses \/ EC2InstancesPage
    \/ RDSInstancesPage \/ ListEnd
    \/ QueryStart \/ QueryPage \/ QueryRaise \/ QueryEnd
    \/ Export \/ ReportReturn
    \/ ECSListClusters \/ ECSServicesPage \/ ECSNextCluster \/ ECSListEnd
    \/ ECSExport

Spec == Init /\ [][Next]_vars

(***************************************************************************)
(* format_metric_value alone: one call on a value and a metric name, for   *)
(* each module.  The names are those of the module's metric list and one   *)
(* name of a metric counted in bytes.                                      *)
(***************************************************************************)
FormatValues ==
    { Frac(85, 2), Big(214, 7483648), Num(0), Num(10), Frac(61, 3),
      Num(5100000) }

FormatNames(m) == Range(MetricList(m)) \cup { "EBSReadBytes" }

InitFormat ==
    /\ opc = Len(Modules) + 1
    /\ rpc = "idle"
    /\ started = << >>
    /\ orch_log = {}
    /\ report_log = FALSE
    /\ result = "none"
    /\ files = {}
    /\ sheet = NoSheet
    /\ details_list = << >>
    /\ metrics_list = << >>
    /\ report_data = << >>
    /\ clusters = << >>
    /\ ci = 0
    /\ pending = << >>
    /\ qpc = "idle"
    /\ all_results = << >>
    /\ q_pages = << >>
    /\ q_raised = "no"
    /\ served = 0
    /\ queried = FALSE
    /\ listed = -1
    /\ failed = {}
    /\ \E m \in Range(Modules) : \E name \in FormatNames(m) :
         \E value \in FormatValues :
           fmt = [m |-> m, value |-> value, name |-> name, done |-> FALSE,
                  out |-> Str("")]

FormatCall ==
    /\ ~fmt.done
    /\ fmt' = [fmt EXCEPT !.done = TRUE,
                          !.out = format_metric_value(fmt.m, fmt.value, fmt.name)]
    /\ UNCHANGED << opc, rpc, started, orch_log, report_log, result, files,
                    sheet, details_list, metrics_list, report_data, clusters,
                    ci, pending, qpc, all_results, q_pages, q_raised, served,
                    queried, listed, failed >>

NextFormat == FormatCall

SpecFormat == InitFormat /\ [][NextFormat]_vars

(***************************************************************************)
(* Properties.  What follows reads the state; it models no code.           *)
(***************************************************************************)
\* the rows get_cloudwatch_metrics has returned so far in the running report
Rows == IF running = "ECS" THEN report_data ELSE metrics_list

\* the exported table that holds the metric cells
SheetMetrics == IF running = "ECS" THEN sheet.top ELSE sheet.bottom

\* the column of the inventory table that identifies the resource queried
KeyColumn ==
    CASE running = "EC2" -> "Instance ID"
      [] running = "RDS" -> "DBInstanceIdentifier"
      [] OTHER -> "ARN"

\* the three fields of a metric are present in row and hold v
AllThree(row, metric, v) ==
    \A f \in { " Min", " Max", " Avg" } :
        (metric \o f) \in DOMAIN row /\ row[metric \o f] = v

\* the inventory row of the resource of Rows[i] is held where the rows are
InventoryHas(i) ==
    IF running = "ECS"
    THEN KeyColumn \in DOMAIN Rows[i].row
         /\ Rows[i].row[KeyColumn].suffix = Rows[i].res
    ELSE i <= Len(details_list)
         /\ details_list[i][KeyColumn].suffix = Rows[i].res

\* ... and in the exported file
SheetHas(i) ==
    /\ i <= Len(sheet.top)
    /\ sheet.top[i][KeyColumn].suffix = Rows[i].res
    /\ i <= Len(SheetMetrics)

\* the values of all results with Id id, over the pages in order
RECURSIVE InPage(_, _, _)
InPage(page, id, k) ==
    IF k > Len(page) THEN << >>
    ELSE (IF page[k].Id = id THEN page[k].Values ELSE << >>)
            \o InPage(page, id, k + 1)

RECURSIVE SamplesOf(_, _)
SamplesOf(pages, id) ==
    IF pages = << >> THEN << >>
    ELSE InPage(pages[1], id, 1) \o SamplesOf(Tail(pages), id)

\* the least and the greatest sample and the exact mean, from the definitions
LeastOf(S) == CHOOSE x \in Range(S) : \A y \in Range(S) : ~Less(y, x)
GreatestOf(S) == CHOOSE x \in Range(S) : \A y \in Range(S) : ~Less(x, y)

RECURSIVE TotalOf(_)
TotalOf(S) == IF S = << >> THEN Num(0) ELSE Plus(S[1], TotalOf(Tail(S)))

MeanOf(S) ==
    [isnum |-> TRUE, hi |-> TotalOf(S).hi, lo |-> TotalOf(S).lo, den |-> Len(S)]

\* a <= b for two rendered numbers
CellLeq(a, b) ==
    \/ a.hi < b.hi
    \/ a.hi = b.hi /\ a.lo < b.lo
    \/ a.hi = b.hi /\ a.lo = b.lo /\ a.frac <= b.frac

Metrics == MetricList(running)

\* get_cloudwatch_metrics has just returned normally: q_pages holds the
\* pages of the call, and the row returned is the last of Rows
Returned == qpc = "idle" /\ q_pages # << >>

\* ... or from its except branch
Excepted == qpc = "idle" /\ q_raised # "no"
Last == Rows[Len(Rows)]

\* the rows to look at: the row get_cloudwatch_metrics has just returned,
\* which is the last of Rows (rows are only ever appended), and all the
\* rows when the file is written
Looked ==
    IF rpc = "written" THEN 1..Len(Rows)
    ELSE IF Returned \/ Excepted THEN { Len(Rows) } ELSE {}

\* the exported file holds the three fields of metric name as row i does
Exported(i, name) ==
    /\ i <= Len(SheetMetrics)
    /\ \A f \in { " Min", " Max", " Avg" } :
         /\ (name \o f) \in DOMAIN SheetMetrics[i]
         /\ (name \o f) \in DOMAIN Rows[i].row
         /\ SheetMetrics[i][name \o f] = Rows[i].row[name \o f]

--------------------------------------------------------------------------
\* C1: a resource whose metric query raised, at whatever point, has a
\* returned row with 'Error' in the Min, Max and Avg field of every metric
\* of the list, and its inventory row is kept, also in the exported file.
C1_ErrorRowOnQueryFailure ==
    \A i \in Looked :
        Rows[i].raised # "no" =>
            /\ \A k \in 1..Len(Metrics) :
                 AllThree(Rows[i].row, Metrics[k], Str("Error"))
            /\ InventoryHas(i)
            /\ rpc = "written" =>
                 /\ SheetHas(i)
                 /\ \A k \in 1..Len(Metrics) :
                      AllThree(SheetMetrics[i], Metrics[k], Str("Error"))

\* a report of two resources is exported: the query of the first raised,
\* that of the second returned numbers
C1_Witness ==
    /\ rpc = "written"
    /\ Len(Rows) = 2
    /\ Rows[1].raised = "yes"
    /\ Rows[2].raised = "no"
    /\ \A k \in 1..Len(Metrics) :
         AllThree(SheetMetrics[1], Metrics[k], Str("Error"))
    /\ SheetMetrics[2][Metrics[1] \o " Min"].numeric

\* C2: a metric whose query succeeded without any sample over all pages has
\* 'Nil' in its three fields, none of them a number, whatever the other
\* metrics of the resource returned; the exported file holds the fields as
\* returned.
C2_NilWithoutSamples ==
    /\ Returned =>
         /\ Len(Rows) > 0 /\ Last.raised = "no"
         /\ \A k \in 1..Len(Metrics) :
              SamplesOf(q_pages, QueryId(k - 1)) = << >> =>
                  AllThree(Last.row, Metrics[k], Str("Nil"))
    /\ rpc = "written" =>
         \A i \in 1..Len(Rows) : \A k \in 1..Len(Metrics) :
             AllThree(Rows[i].row, Metrics[k], Str("Nil")) =>
                 Exported(i, Metrics[k])

\* the second resource's query has returned: its first metric has samples
\* and a number, its second metric none and 'Nil'
C2_Witness ==
    /\ Returned
    /\ Len(Rows) = 2
    /\ SamplesOf(q_pages, QueryId(0)) # << >>
    /\ SamplesOf(q_pages, QueryId(1)) = << >>
    /\ Last.row[Metrics[1] \o " Min"].numeric
    /\ Last.row[Metrics[2] \o " Min"] = Str("Nil")

\* C3: in an exported report the metrics rows are as many as the inventory
\* rows and correspond 1:1 by key: the key of a metrics row names exactly
\* one inventory row, and no two metrics rows share a key.
C3_OneToOneByKey ==
    rpc = "written" =>
        IF running = "ECS"
        THEN \A i, j \in 1..Len(sheet.top) :
                (sheet.top[i]["Cluster"] = sheet.top[j]["Cluster"]
                   /\ sheet.top[i]["Service Name"] = sheet.top[j]["Service Name"])
                => i = j
        ELSE /\ Len(sheet.bottom) = Len(sheet.top)
             /\ \A i \in 1..Len(sheet.bottom) :
                  Cardinality({ j \in 1..Len(sheet.top) :
                      sheet.top[j][IF running = "EC2" THEN "Name" ELSE KeyColumn]
                         = sheet.bottom[i]["Name"] }) = 1
             /\ \A i, j \in 1..Len(sheet.bottom) :
                  sheet.bottom[i]["Name"] = sheet.bottom[j]["Name"] => i = j

\* C4: when the listing has returned no resource, main has issued no
\* get_metric_data call, has written no file and has returned without any
\* exception.
C4_EmptyInventorySkips ==
    listed = 0 =>
        /\ ~queried
        /\ running \notin files
        /\ running \notin failed
        /\ ~report_log
        /\ result = "empty"
        /\ rpc \in { "returned", "idle" }

\* ECS: clusters are listed, none has a service
C4_Witness ==
    /\ listed = 0
    /\ running = "ECS"
    /\ rpc = "returned"
    /\ "EC2" \in files

\* C5: main.main calls the three reports in the order EC2, RDS, ECS, each
\* once, whatever happened in the reports before, and ends after the third:
\* before that, a step is always possible.
C5_AllReportsInOrder ==
    /\ started = SubSeq(Modules, 1, Len(started))
    /\ Len(started) = IF rpc = "idle" THEN opc - 1 ELSE opc
    /\ opc > Len(Modules) => (started = Modules /\ rpc = "idle")
    /\ opc <= Len(Modules) => ENABLED Next

\* the run has ended; EC2 and RDS failed and ECS wrote its file
C5_Witness ==
    /\ opc > Len(Modules)
    /\ failed = { "EC2", "RDS" }
    /\ files = { "ECS" }

\* C6: a report in which a call of the inventory listing raised writes no
\* file, not even one of the rows collected before.
C6_NoFileOnListingFailure ==
    /\ result = "listing_failed" =>
         (running \in failed /\ running \notin files /\ sheet = NoSheet)
    /\ failed \cap files = {}

\* ECS: the listing failed after a service had been described and queried
C6_Witness ==
    /\ result = "listing_failed"
    /\ running = "ECS"
    /\ queried
    /\ served > 0

\* C7: for a query that succeeded, a metric with samples has as Min, Max and
\* Avg the formatted least, greatest and mean of its samples, taken over
\* all pages in order, the result with Id m<i> going to metric i of the
\* list; Min <= Avg <= Max; the samples 10, 20, 30 give 10.00, 30.00, 20.00.
C7_MinMaxAvgOverAllPages ==
    /\ Returned =>
         /\ Len(Rows) > 0 /\ Last.raised = "no"
         /\ \A k \in 1..Len(Metrics) :
              LET S == SamplesOf(q_pages, QueryId(k - 1))
                  row == Last.row
                  name == Metrics[k]
              IN  S # << >> =>
                    /\ \A f \in { " Min", " Max", " Avg" } :
                         (name \o f) \in DOMAIN row
                    /\ row[name \o " Min"]
                         = format_metric_value(running, LeastOf(S), name)
                    /\ row[name \o " Max"]
                         = format_metric_value(running, GreatestOf(S), name)
                    /\ row[name \o " Avg"]
                         = format_metric_value(running, MeanOf(S), name)
                    /\ CellLeq(row[name \o " Min"], row[name \o " Avg"])
                    /\ CellLeq(row[name \o " Avg"], row[name \o " Max"])
                    /\ S = << Num(10), Num(20), Num(30) >> =>
                         /\ row[name \o " Min"].lo = 10 /\ row[name \o " Min"].frac = 0
                         /\ row[name \o " Max"].lo = 30 /\ row[name \o " Max"].frac = 0
                         /\ row[name \o " Avg"].lo = 20 /\ row[name \o " Avg"].frac = 0
    /\ rpc = "written" =>
         \A i \in 1..Len(Rows) : \A k \in 1..Len(Metrics) :
             Rows[i].raised = "no" => Exported(i, Metrics[k])

\* the second resource's query has returned after it received the samples
\* 10, 20, 30 over two pages
C7_Witness ==
    /\ Returned
    /\ Len(Rows) = 2
    /\ Len(q_pages) = 2
    /\ SamplesOf(q_pages, QueryId(0)) = << Num(10), Num(20), Num(30) >>
    /\ Last.row[Metrics[1] \o " Avg"].lo = 20
    /\ Last.row[Metrics[1] \o " Avg"].frac = 0

\* the metrics the rule of C8 names: utilization, and memory or throughput
\* counted in bytes
UtilizationMetrics == { "CPUUtilization", "MemoryUtilization" }
ByteMetrics == { "FreeableMemory", "SwapUsage", "ReadThroughput" }

\* C8: format_metric_value renders a utilization metric with two decimals
\* and '%', a memory or throughput metric counted in bytes as gigabytes
\* with two decimals and ' GB', any other metric with two decimals, for
\* every metric name of the module's list.
C8_FormatRule ==
    (fmt.done /\ fmt.name \in Range(MetricList(fmt.m))) =>
        fmt.out = IF fmt.name \in UtilizationMetrics THEN Fixed2(fmt.value, "%")
                  ELSE IF fmt.name \in ByteMetrics THEN GB2(fmt.value)
                  ELSE Fixed2(fmt.value, "")

\* C9 as stated: an exception raised in a report's run reaches main.main,
\* whose except branch logs it.
C9_OrchestratorCatches ==
    \A m \in failed : (m # running \/ rpc = "idle") => m \in orch_log

\* C9 as amended: the exception is caught by the report's own main, which
\* logs it and returns; main.main's except branch never runs; the reports
\* that remain are called all the same.
C9_ReportCatches ==
    /\ orch_log = {}
    /\ rpc # "raised"
    /\ running \in failed =>
         /\ report_log
         /\ result \in { "session_failed", "listing_failed" }
         /\ rpc \in { "returned", "idle" }
    /\ (running # "none" /\ running \notin failed) => ~report_log
    /\ failed \subseteq Range(started)
    /\ opc > Len(Modules) => started = Modules

\* the run has ended after the first report failed in its listing and the
\* other two were called
C9_Witness ==
    /\ opc > Len(Modules)
    /\ "EC2" \in failed
    /\ started = Modules
    /\ orch_log = {}

\* C10 as stated: no get_metric_data call before the listing of the report
\* has returned, and the file is written after the last query has returned.
C10_ListThenQueryThenExport ==
    /\ (queried \/ qpc # "idle") => listed >= 0
    /\ running \in files => (qpc = "idle" /\ listed >= 0)

\* C10 as amended: EC2 and RDS issue no get_metric_data call before their
\* listing has returned; ECS queries each described service within the
\* listing, before the listing returns; in all three the file is written
\* after the listing has returned and every listed resource has its row.
C10_PhaseOrder ==
    /\ (running \in { "EC2", "RDS" } /\ (queried \/ qpc # "idle")) => listed >= 0
    /\ (running = "ECS" /\ qpc # "idle") => (listed = -1 /\ pending # << >>)
    /\ (running \in files /\ rpc = "written") =>
         /\ qpc = "idle"
         /\ listed >= 1
         /\ Len(Rows) = listed
         /\ Len(SheetMetrics) = listed

\* an exported RDS report of two instances, both queried with pages served
C10_Witness ==
    /\ running = "RDS"
    /\ rpc = "written"
    /\ queried
    /\ listed = 2
    /\ served = 2
    /\ Rows[1].raised = "no" /\ Rows[2].raised = "no"

\* the names of the 3n metric fields of a list
FieldNames(metric_list) ==
    { metric_list[k] \o f : k \in 1..Len(metric_list),
                            f \in { " Min", " Max", " Avg" } }

EC2_FIELDS == FieldNames(EC2_METRICS)
RDS_FIELDS == FieldNames(RDS_METRICS)
ECS_FIELDS == FieldNames(ECS_METRICS)

MetricFields ==
    CASE running = "EC2" -> EC2_FIELDS
      [] running = "RDS" -> RDS_FIELDS
      [] OTHER -> ECS_FIELDS

\* the keys a row holds beside the metric fields: 'Name' in the row
\* get_cloudwatch_metrics starts from (EC2, RDS), the columns of the
\* service the returned fields are merged into (ECS)
OtherKeys ==
    IF running = "ECS" THEN { "Cluster", "Service Name", "ARN" } ELSE { "Name" }

\* row holds the 3n metric fields and no other, and 'Error' in all of them
\* or in none; in none when the query did not raise
Whole(row, raised) ==
    /\ DOMAIN row \ OtherKeys = MetricFields
    /\ LET E == { k \in MetricFields : row[k] = Str("Error") }
       IN  /\ E = {} \/ E = MetricFields
           /\ raised = "no" => E = {}

\* C11: every row get_cloudwatch_metrics has returned, normally or from its
\* except branch, holds exactly the fields Min, Max and Avg of every metric
\* of the list, 3n fields, and holds 'Error' in all of them or in none, also
\* when the exception came after pages were received or in the reduction;
\* the exported rows hold the same.
C11_WholeRowsErrorAllOrNothing ==
    /\ \A i \in Looked : Whole(Rows[i].row, Rows[i].raised)
    /\ rpc = "written" =>
         \A i \in 1..Len(Rows) :
             /\ i <= Len(SheetMetrics)
             /\ \A k \in MetricFields :
                  /\ k \in DOMAIN SheetMetrics[i]
                  /\ SheetMetrics[i][k] = Rows[i].row[k]

\* the second resource's query has raised in the reduction, after a page was
\* received and the fields of the first metric were written; the first
\* resource's query returned numbers
C11_Witness ==
    /\ qpc = "idle"
    /\ Len(Rows) = 2
    /\ Rows[1].raised = "no"
    /\ Rows[1].row[Metrics[1] \o " Min"].numeric
    /\ Last.raised = "yes"
    /\ q_raised = "reduce"
    /\ served = 2
    /\ \A k \in MetricFields : Last.row[k] = Str("Error")

====
